---- MODULE Spec2Model ----
(***************************************************************************)
(* Model of estl::vector<T, Capacity> (include/estl/vector.hpp) and of     *)
(* estl::map<Key, T, Compare, Capacity> (include/estl/map.hpp): two        *)
(* instances, a and b, of one of the two containers, and the operations    *)
(* a caller can apply to them.  Every operation is one action; inside an   *)
(* action the handler's code runs step by step over a record S that holds  *)
(* the cells, the sizes and a trace of what each placement-new, destructor *)
(* call, read and assignment did to the cell it touched.                   *)
(***************************************************************************)
EXTENDS Integers, Sequences, FiniteSets, TLC

\* ------------------------------------------------------------------ bounds
\* The template parameter Capacity of both containers.
Capacity == 3
\* Mapped values and vector elements are 0..MaxVal; 0 is the value of T().
MaxVal == 1
\* Keys are 1..MaxKey.
MaxKey == 4
\* size_type is size_t; its largest value on a 16-bit target.
SizeMax == 65535

Inst == {"a", "b"}
Val == 0..MaxVal
\* The smallest and the largest element value: the containers copy values
\* without inspecting them, so two distinct ones tell every cell apart.
EndVal == {0, MaxVal}
Key == 1..MaxKey
Slots == 0..(Capacity - 1)
\* Positions a caller can form: begin() + 0 .. begin() + Capacity.
Positions == 0..Capacity
\* T(): the value-initialised element.
DefaultT == 0

VARIABLES
    kind,      \* which container the two instances are: "vector" or "map"
    m_data,    \* m_data[c][i]: the cell i of instance c
    m_size,    \* m_size[c]
    alive,     \* alive[c]: the instance's lifetime has begun and not ended
    bal,       \* bal[c]: placement-news minus destructor calls on c's cells
    halted,    \* "no", "abort" (assert fired) or "fault" (memory outside the cells written)
    last,      \* what the last operation was, returned and did
    cur        \* the caller's cursor into an instance, if it holds one

vars == <<kind, m_data, m_size, alive, bal, halted, last, cur>>

\* ------------------------------------------------------------------ cells
\* A cell of the storage block: empty (no live object) or holding an element.
\* A vector element has key 0.
EmptyCell == [occ |-> FALSE, key |-> 0, val |-> 0]

Cell(x) == [occ |-> TRUE, key |-> x.key, val |-> x.val]

Elem(k, v) == [key |-> k, val |-> v]

Occupied(cells) == {i \in Slots : cells[i].occ}

\* No cursor held.  A cursor is forward ("fwd": an iterator) or reverse
\* ("rev": a reverse_iterator, idx being the index of its base iterator
\* current); n counts its increments and seen lists the indices dereferenced.
NoCursor == [dir |-> "none", c |-> "a", idx |-> 0, n |-> 0, seen |-> <<>>]

\* The record a handler runs over.
Start ==
    [data |-> m_data, size |-> m_size, bal |-> bal,
     viol |-> {}, oob |-> FALSE, asserted |-> FALSE]

\* new (&m_data[i]) T(x)
Construct(S, c, i, x) ==
    IF i >= Capacity
    THEN [S EXCEPT !.oob = TRUE, !.bal[c] = @ + 1]
    ELSE [S EXCEPT !.data[c][i] = Cell(x),
                   !.bal[c] = @ + 1,
                   !.viol = IF S.data[c][i].occ THEN @ \cup {"construct_occupied"} ELSE @]

\* m_data[i].~T()
Destroy(S, c, i) ==
    IF i >= Capacity
    THEN [S EXCEPT !.viol = @ \cup {"destroy_empty"}, !.bal[c] = @ - 1]
    ELSE [S EXCEPT !.data[c][i] = EmptyCell,
                   !.bal[c] = @ - 1,
                   !.viol = IF S.data[c][i].occ THEN @ ELSE @ \cup {"destroy_empty"}]

\* The element read from m_data[i]; g is what an empty cell's bytes hold.
ReadCell(S, c, i, g) ==
    IF i < Capacity /\ S.data[c][i].occ
    THEN Elem(S.data[c][i].key, S.data[c][i].val)
    ELSE g

\* The trace of a read of m_data[i].
NoteRead(S, c, i) ==
    IF i < Capacity /\ S.data[c][i].occ
    THEN S
    ELSE [S EXCEPT !.viol = @ \cup {"read_empty"}]

\* m_data[i] = x
AssignCell(S, c, i, x) ==
    IF i >= Capacity
    THEN [S EXCEPT !.oob = TRUE]
    ELSE [S EXCEPT !.data[c][i] = Cell(x),
                   !.viol = IF S.data[c][i].occ THEN @ ELSE @ \cup {"assign_empty"}]

\* m_data[i].second = v, through a reference to the mapped value of cell i
AssignSecond(S, c, i, v) ==
    IF i >= Capacity
    THEN [S EXCEPT !.oob = TRUE]
    ELSE [S EXCEPT !.data[c][i].val = v,
                   !.viol = IF S.data[c][i].occ THEN @ ELSE @ \cup {"assign_empty"}]

\* new (&m_data[i]) T(std::move(other.m_data[j]))
MoveConstruct(S, c, i, d, j, g) ==
    Construct(NoteRead(S, d, j), c, i, ReadCell(S, d, j, g))

\* ESTL_ASSERT(cond) with cond false.
AssertFail(S) == [S EXCEPT !.asserted = TRUE]

\* ------------------------------------------------------------------ vector
RECURSIVE DestroyRange(_, _, _, _)
\* for (i = lo; i < hi; ++i) m_data[i].~T();
DestroyRange(S, c, i, hi) ==
    IF i >= hi THEN S ELSE DestroyRange(Destroy(S, c, i), c, i + 1, hi)

vector_clear(S, c) ==
    [DestroyRange(S, c, 0, S.size[c]) EXCEPT !.size[c] = 0]

\* begin() + index: an iterator of a vector is the index it designates.
IteratorAt(index) == index

RECURSIVE ShiftUp_stops_short(_, _, _, _, _)
\* A shift loop that ends one element early: for (i = m_size; i > index + 1; --i).
ShiftUp_stops_short(S, c, i, index, g) ==
    IF i > index + 1
    THEN ShiftUp_stops_short(Destroy(MoveConstruct(S, c, i, c, i - 1, g), c, i - 1),
                             c, i - 1, index, g)
    ELSE S

RECURSIVE ShiftUp(_, _, _, _, _)
\* for (i = m_size; i > index; --i) { new (&m_data[i]) T(m_data[i-1]); m_data[i-1].~T(); }
ShiftUp(S, c, i, index, g) ==
    IF i > index
    THEN ShiftUp(Destroy(MoveConstruct(S, c, i, c, i - 1, g), c, i - 1), c, i - 1, index, g)
    ELSE S

vector_insert(S, c, index, value, g) ==
    IF S.size[c] < Capacity
    THEN LET S1 == IF index < S.size[c] THEN ShiftUp(S, c, S.size[c], index, g) ELSE S
             S2 == Construct(S1, c, index, value)
         IN  [S2 EXCEPT !.size[c] = @ + 1]
    ELSE AssertFail(S)

\* insert(pos, x) where the reference x designates the cell m_data[j] of the
\* same vector: value is read by new (&m_data[index]) T(value), after the
\* shift, from whatever cell j holds then.
vector_insert_alias(S, c, index, j, g) ==
    IF S.size[c] < Capacity
    THEN LET S1 == IF index < S.size[c] THEN ShiftUp(S, c, S.size[c], index, g) ELSE S
             S2 == MoveConstruct(S1, c, index, c, j, g)
         IN  [S2 EXCEPT !.size[c] = @ + 1]
    ELSE AssertFail(S)

RECURSIVE ShiftDown(_, _, _, _, _)
\* for (i = index; i < m_size - 1; ++i) { new (&m_data[i]) T(std::move(m_data[i+1])); m_data[i+1].~T(); }
ShiftDown(S, c, i, hi, g) ==
    IF i < hi
    THEN ShiftDown(Destroy(MoveConstruct(S, c, i, c, i + 1, g), c, i + 1), c, i + 1, hi, g)
    ELSE S

\* An erase without the index < m_size check.
vector_erase_unguarded(S, c, index, g) ==
    LET S1 == Destroy(S, c, index)
        S2 == ShiftDown(S1, c, index, S.size[c] - 1, g)
    IN  [S2 EXCEPT !.size[c] = @ - 1]

vector_erase(S, c, index, g) ==
    IF index < S.size[c]
    THEN LET S1 == Destroy(S, c, index)
             S2 == ShiftDown(S1, c, index, S.size[c] - 1, g)
         IN  [S2 EXCEPT !.size[c] = @ - 1]
    ELSE S

\* A push_back that increments the size before it constructs at m_data[m_size].
vector_push_back_late_index(S, c, value) ==
    IF S.size[c] < Capacity
    THEN Construct([S EXCEPT !.size[c] = @ + 1], c, S.size[c] + 1, value)
    ELSE AssertFail(S)

\* A push_back without the capacity check.
vector_push_back_unchecked(S, c, value) ==
    [Construct(S, c, S.size[c], value) EXCEPT !.size[c] = @ + 1]

vector_push_back(S, c, value) ==
    IF S.size[c] < Capacity
    THEN [Construct(S, c, S.size[c], value) EXCEPT !.size[c] = @ + 1]
    ELSE AssertFail(S)

\* A pop_back without the m_size > 0 check; size_type arithmetic wraps.
vector_pop_back_unguarded(S, c) ==
    Destroy([S EXCEPT !.size[c] = (@ - 1) % (SizeMax + 1)],
            c, (S.size[c] - 1) % (SizeMax + 1))

\* A pop_back that decrements the size and leaves the element alive.
vector_pop_back_no_destroy(S, c) ==
    IF S.size[c] > 0
    THEN [S EXCEPT !.size[c] = @ - 1]
    ELSE S

vector_pop_back(S, c) ==
    IF S.size[c] > 0
    THEN Destroy([S EXCEPT !.size[c] = @ - 1], c, S.size[c] - 1)
    ELSE S

RECURSIVE ConstructRange(_, _, _, _, _)
\* for (i = lo; i < hi; ++i) new (&m_data[i]) T(value);
ConstructRange(S, c, i, hi, value) ==
    IF i >= hi THEN S ELSE ConstructRange(Construct(S, c, i, value), c, i + 1, hi, value)

\* A resize without the clamp of count to Capacity.
vector_resize_unclamped(S, c, n, value) ==
    LET S1 == IF n > S.size[c] THEN ConstructRange(S, c, S.size[c], n, value)
              ELSE IF n < S.size[c] THEN DestroyRange(S, c, n, S.size[c])
              ELSE S
    IN  [S1 EXCEPT !.size[c] = n]

vector_resize(S, c, n, value) ==
    LET count == IF n > Capacity THEN Capacity ELSE n
        S1 == IF count > S.size[c] THEN ConstructRange(S, c, S.size[c], count, value)
              ELSE IF count < S.size[c] THEN DestroyRange(S, c, count, S.size[c])
              ELSE S
    IN  [S1 EXCEPT !.size[c] = count]

RECURSIVE PushAll_no_limit(_, _, _, _)
\* An assign loop that only tests first != last.
PushAll_no_limit(S, c, src, k) ==
    IF k <= Len(src)
    THEN PushAll_no_limit(vector_push_back(S, c, src[k]), c, src, k + 1)
    ELSE S

RECURSIVE PushAll(_, _, _, _)
\* while (first != last && m_size < Capacity) { push_back(*first); ++first; }
PushAll(S, c, src, k) ==
    IF k <= Len(src) /\ S.size[c] < Capacity
    THEN PushAll(vector_push_back(S, c, src[k]), c, src, k + 1)
    ELSE S

\* An assign that does not clear the old elements first.
vector_assign_range_no_clear(S, c, src) == PushAll(S, c, src, 1)

\* assign(first, last) over a range that holds the elements src.
vector_assign_range(S, c, src) == PushAll(vector_clear(S, c), c, src, 1)

RECURSIVE PushN(_, _, _, _)
\* for (i = 0; i < count; ++i) push_back(value);
PushN(S, c, n, value) ==
    IF n > 0 THEN PushN(vector_push_back(S, c, value), c, n - 1, value) ELSE S

vector_assign_n(S, c, n, value) ==
    PushN(vector_clear(S, c), c, IF n <= Capacity THEN n ELSE Capacity, value)

\* The elements of [other.begin(), other.end()).
RangeOf(S, d) == [k \in 1..S.size[d] |-> ReadCell(S, d, k - 1, Elem(0, DefaultT))]

RECURSIVE NoteReads(_, _, _, _)
\* The trace of the reads *first of [other.begin(), other.end()).
NoteReads(S, d, i, hi) ==
    IF i >= hi THEN S ELSE NoteReads(NoteRead(S, d, i), d, i + 1, hi)

\* An operator= without the test this != &other: assign(other.begin(),
\* other.end()) clears the vector and then reads the range.
vector_copy_assign_no_self_check(S, c, d) ==
    vector_assign_range(NoteReads(vector_clear(S, c), d, 0, S.size[d]), c, RangeOf(S, d))

\* operator=(const vector& other)
vector_copy_assign(S, c, d) ==
    IF c # d
    THEN vector_assign_range(NoteReads(S, d, 0, S.size[d]), c, RangeOf(S, d))
    ELSE S

\* at(pos): the final record and the index of the cell the returned reference
\* designates.
vector_at(S, c, pos) ==
    IF pos >= S.size[c]
    THEN [S |-> AssertFail(S), idx |-> pos, flag |-> FALSE]
    ELSE [S |-> S, idx |-> pos, flag |-> FALSE]

RECURSIVE SwapCommon(_, _, _, _, _, _)
\* for (i = 0; i < min_size; ++i) { T temp = move(m_data[i]); m_data[i] = move(other.m_data[i]); other.m_data[i] = move(temp); }
SwapCommon(S, c, d, i, hi, g) ==
    IF i < hi
    THEN LET temp == ReadCell(S, c, i, g)
             S1 == NoteRead(S, c, i)
             S2 == AssignCell(NoteRead(S1, d, i), c, i, ReadCell(S1, d, i, g))
             S3 == AssignCell(S2, d, i, temp)
         IN  SwapCommon(S3, c, d, i + 1, hi, g)
    ELSE S

RECURSIVE MoveTail(_, _, _, _, _, _)
\* for (i = lo; i < hi; ++i) { new (&to.m_data[i]) T(move(from.m_data[i])); from.m_data[i].~T(); }
MoveTail(S, to, from, i, hi, g) ==
    IF i < hi
    THEN MoveTail(Destroy(MoveConstruct(S, to, i, from, i, g), from, i), to, from, i + 1, hi, g)
    ELSE S

\* A swap that moves the elements and does not exchange the sizes.
vector_swap_sizes_kept(S, c, d, g) ==
    LET sc == S.size[c]
        sd == S.size[d]
        min_size == IF sc < sd THEN sc ELSE sd
        S1 == SwapCommon(S, c, d, 0, min_size, g)
    IN  IF sc > min_size THEN MoveTail(S1, d, c, min_size, sc, g)
        ELSE IF sd > min_size THEN MoveTail(S1, c, d, min_size, sd, g)
        ELSE S1

\* vector::swap(other): this is c, other is d.
vector_swap(S, c, d, g) ==
    LET sc == S.size[c]
        sd == S.size[d]
        min_size == IF sc < sd THEN sc ELSE sd
        S1 == SwapCommon(S, c, d, 0, min_size, g)
        S2 == IF sc > min_size THEN MoveTail(S1, d, c, min_size, sc, g)
              ELSE IF sd > min_size THEN MoveTail(S1, c, d, min_size, sd, g)
              ELSE S1
    IN  [S2 EXCEPT !.size = [x \in Inst |-> IF x = c THEN sd ELSE IF x = d THEN sc ELSE S.size[x]]]

\* ------------------------------------------------------------------ map
\* Compare()(lhs, rhs) with Compare = estl::less<Key>
key_comp(lhs, rhs) == lhs < rhs

RECURSIVE FindFrom_skip_first(_, _, _, _)
\* A find whose scan starts at index 1 when asked to start at 0.
FindFrom_skip_first(cells, size, key, i) ==
    LET j == IF i = 0 THEN 1 ELSE i
    IN  IF j < size /\ j < Capacity
        THEN IF ~(cells[j].key < key) /\ ~(key < cells[j].key)
             THEN j
             ELSE FindFrom_skip_first(cells, size, key, j + 1)
        ELSE size

RECURSIVE FindFrom(_, _, _, _)
\* for (i = 0; i < m_size; ++i) if (!comp(m_data[i].first, key) && !comp(key, m_data[i].first)) return i;
\* return end();
FindFrom(cells, size, key, i) ==
    IF i < size /\ i < Capacity
    THEN IF ~key_comp(cells[i].key, key) /\ ~key_comp(key, cells[i].key)
         THEN i
         ELSE FindFrom(cells, size, key, i + 1)
    ELSE size

RECURSIVE LowerFrom(_, _, _, _)
\* for (i = 0; i < m_size; ++i) if (!comp(m_data[i].first, key)) return i;
\* return end();
LowerFrom(cells, size, key, i) ==
    IF i < size /\ i < Capacity
    THEN IF ~key_comp(cells[i].key, key) THEN i ELSE LowerFrom(cells, size, key, i + 1)
    ELSE size

\* lower_bound(key): the index of the iterator returned.
map_lower_bound(S, c, key) == LowerFrom(S.data[c], S.size[c], key, 0)

RECURSIVE UpperFrom_not_less(_, _, _, _)
\* An upper_bound that stops at the first key not less than key.
UpperFrom_not_less(cells, size, key, i) ==
    IF i < size /\ i < Capacity
    THEN IF ~key_comp(cells[i].key, key) THEN i ELSE UpperFrom_not_less(cells, size, key, i + 1)
    ELSE size

RECURSIVE UpperFrom(_, _, _, _)
\* for (i = 0; i < m_size; ++i) if (comp(key, m_data[i].first)) return i;
\* return end();
UpperFrom(cells, size, key, i) ==
    IF i < size /\ i < Capacity
    THEN IF key_comp(key, cells[i].key) THEN i ELSE UpperFrom(cells, size, key, i + 1)
    ELSE size

\* upper_bound(key): the index of the iterator returned.
map_upper_bound(S, c, key) == UpperFrom(S.data[c], S.size[c], key, 0)

RECURSIVE LowerHalving_not_greater(_, _, _, _)
\* A halving lower_bound that also steps over the keys equivalent to value.
LowerHalving_not_greater(keys, first, count, value) ==
    IF count > 0
    THEN LET step == count \div 2
             it == first + step
         IN  IF ~key_comp(value, keys[it + 1])
             THEN LowerHalving_not_greater(keys, it + 1, count - (step + 1), value)
             ELSE LowerHalving_not_greater(keys, first, step, value)
    ELSE first

RECURSIVE LowerHalving(_, _, _, _)
\* estl::lower_bound: while (count > 0) { step = count / 2; it = first; advance(it, step);
\*     if (comp(*it, value)) { first = ++it; count -= step + 1; } else { count = step; } }
\* return first;   first and it are offsets into keys.
LowerHalving(keys, first, count, value) ==
    IF count > 0
    THEN LET step == count \div 2
             it == first + step
         IN  IF key_comp(keys[it + 1], value)
             THEN LowerHalving(keys, it + 1, count - (step + 1), value)
             ELSE LowerHalving(keys, first, step, value)
    ELSE first

RECURSIVE UpperHalving(_, _, _, _)
\* estl::upper_bound: the same loop with if (!comp(value, *it)).
UpperHalving(keys, first, count, value) ==
    IF count > 0
    THEN LET step == count \div 2
             it == first + step
         IN  IF ~key_comp(value, keys[it + 1])
             THEN UpperHalving(keys, it + 1, count - (step + 1), value)
             ELSE UpperHalving(keys, first, step, value)
    ELSE first

\* estl::lower_bound(first, last, value, comp) and estl::upper_bound over the
\* range keys; count starts as distance(first, last).
estl_lower_bound(keys, value) == LowerHalving(keys, 0, Len(keys), value)

estl_upper_bound(keys, value) == UpperHalving(keys, 0, Len(keys), value)

\* A find that returns the first entry whose key is not less than key.
map_find_as_lower_bound(S, c, key) == map_lower_bound(S, c, key)

\* find(key): the index of the iterator returned; m_size is end().
map_find(S, c, key) == FindFrom(S.data[c], S.size[c], key, 0)

\* count(key)
map_count(S, c, key) == IF map_find(S, c, key) # S.size[c] THEN 1 ELSE 0

\* An insertion point that is always the end.
InsertPos_append(cells, size, key, i) == size

RECURSIVE InsertPos(_, _, _, _)
\* pos = m_size; for (i = 0; i < m_size; ++i) if (comp(value.first, m_data[i].first)) { pos = i; break; }
InsertPos(cells, size, key, i) ==
    IF i < size
    THEN IF key_comp(key, cells[i].key) THEN i ELSE InsertPos(cells, size, key, i + 1)
    ELSE size

RECURSIVE MapShiftUp(_, _, _, _, _)
\* for (i = m_size; i > pos; --i) { new (&m_data[i]) value_type(std::move(m_data[i-1])); m_data[i-1].~value_type(); }
MapShiftUp(S, c, i, pos, g) ==
    IF i > pos
    THEN MapShiftUp(Destroy(MoveConstruct(S, c, i, c, i - 1, g), c, i - 1), c, i - 1, pos, g)
    ELSE S

\* An insert that, when the key is present, assigns the new mapped value.
map_insert_overwrite(S, c, value, g) ==
    LET it == map_find(S, c, value.key)
    IN  IF it # S.size[c]
        THEN [S |-> AssignSecond(S, c, it, value.val), idx |-> it, flag |-> FALSE]
        ELSE IF S.size[c] >= Capacity
        THEN [S |-> AssertFail(S), idx |-> S.size[c], flag |-> FALSE]
        ELSE LET pos == InsertPos(S.data[c], S.size[c], value.key, 0)
                 S1 == MapShiftUp(S, c, S.size[c], pos, g)
                 S2 == Construct(S1, c, pos, value)
             IN  [S |-> [S2 EXCEPT !.size[c] = @ + 1], idx |-> pos, flag |-> TRUE]

\* insert(value): the final record and the pair returned.
map_insert(S, c, value, g) ==
    LET it == map_find(S, c, value.key)
    IN  IF it # S.size[c]
        THEN [S |-> S, idx |-> it, flag |-> FALSE]
        ELSE IF S.size[c] >= Capacity
        THEN [S |-> AssertFail(S), idx |-> S.size[c], flag |-> FALSE]
        ELSE LET pos == InsertPos(S.data[c], S.size[c], value.key, 0)
                 S1 == MapShiftUp(S, c, S.size[c], pos, g)
                 S2 == Construct(S1, c, pos, value)
             IN  [S |-> [S2 EXCEPT !.size[c] = @ + 1], idx |-> pos, flag |-> TRUE]

RECURSIVE MapShiftDown(_, _, _, _, _)
\* for (i = index; i < m_size - 1; ++i) { new (&m_data[i]) value_type(std::move(m_data[i+1])); m_data[i+1].~value_type(); }
\* The loop is followed up to its first write outside the storage block.
MapShiftDown(S, c, i, hi, g) ==
    IF i < hi /\ ~S.oob
    THEN MapShiftDown(Destroy(MoveConstruct(S, c, i, c, i + 1, g), c, i + 1), c, i + 1, hi, g)
    ELSE S

\* An erase that removes the last entry instead of the one at index.
map_erase_pos_drop_last(S, c, index, g) ==
    [Destroy(S, c, (S.size[c] - 1) % (SizeMax + 1)) EXCEPT
        !.size[c] = (@ - 1) % (SizeMax + 1)]

\* erase(const_iterator pos) with pos.m_index = index; size_type arithmetic wraps.
map_erase_pos(S, c, index, g) ==
    LET S1 == Destroy(S, c, index)
        S2 == MapShiftDown(S1, c, index, (S.size[c] - 1) % (SizeMax + 1), g)
    IN  [S2 EXCEPT !.size[c] = (@ - 1) % (SizeMax + 1)]

\* An erase by key that removes the first entry whenever the key is present.
map_erase_key_first_entry(S, c, key, g) ==
    LET it == map_find(S, c, key)
    IN  IF it = S.size[c]
        THEN [S |-> S, idx |-> 0, flag |-> FALSE]
        ELSE [S |-> map_erase_pos(S, c, 0, g), idx |-> 1, flag |-> TRUE]

\* erase(const Key& key): the final record and the count returned (in idx).
map_erase_key(S, c, key, g) ==
    LET it == map_find(S, c, key)
    IN  IF it = S.size[c]
        THEN [S |-> S, idx |-> 0, flag |-> FALSE]
        ELSE [S |-> map_erase_pos(S, c, it, g), idx |-> 1, flag |-> TRUE]

map_clear(S, c) ==
    [DestroyRange(S, c, 0, S.size[c]) EXCEPT !.size[c] = 0]

\* at(key): it = find(key); if (it == end()) { ESTL_ASSERT(it != end()); }
\* return it->second;  idx is the index of the cell whose .second the
\* reference designates, flag tells a hit.
map_at(S, c, key) ==
    LET it == map_find(S, c, key)
    IN  IF it = S.size[c]
        THEN [S |-> AssertFail(S), idx |-> it, flag |-> FALSE]
        ELSE [S |-> S, idx |-> it, flag |-> TRUE]

\* An operator[] that inserts nothing on a miss and returns end()->second.
map_subscript_no_insert(S, c, key, g) ==
    [S |-> S, idx |-> map_find(S, c, key), flag |-> FALSE]

\* operator[](key): the final record and the index of the cell whose .second
\* the returned reference designates.
map_subscript(S, c, key, g) ==
    LET it == map_find(S, c, key)
    IN  IF it # S.size[c]
        THEN [S |-> S, idx |-> it, flag |-> FALSE]
        ELSE map_insert(S, c, Elem(key, DefaultT), g)

\* A swap that moves the entries and does not exchange the sizes.
map_swap_sizes_kept(S, c, d, g) ==
    LET sc == S.size[c]
        sd == S.size[d]
        min_size == IF sc < sd THEN sc ELSE sd
        S1 == SwapCommon(S, c, d, 0, min_size, g)
    IN  IF sc > min_size THEN MoveTail(S1, d, c, min_size, sc, g)
        ELSE IF sd > min_size THEN MoveTail(S1, c, d, min_size, sd, g)
        ELSE S1

\* map::swap(other): this is c, other is d.
map_swap(S, c, d, g) ==
    LET sc == S.size[c]
        sd == S.size[d]
        min_size == IF sc < sd THEN sc ELSE sd
        S1 == SwapCommon(S, c, d, 0, min_size, g)
        S2 == IF sc > min_size THEN MoveTail(S1, d, c, min_size, sc, g)
              ELSE IF sd > min_size THEN MoveTail(S1, c, d, min_size, sd, g)
              ELSE S1
    IN  [S2 EXCEPT !.size = [x \in Inst |-> IF x = c THEN sd ELSE IF x = d THEN sc ELSE S.size[x]]]

\* std::pair's operator!= and operator< on two entries: first, then second.
pair_ne(x, y) == x.key # y.key \/ x.val # y.val

pair_lt(x, y) == x.key < y.key \/ (~(y.key < x.key) /\ x.val < y.val)

RECURSIVE EqualFrom(_, _, _, _)
\* while (lit != lhs.end()) { if (*lit != *rit) return false; ++lit; ++rit; } return true;
EqualFrom(S, l, r, i) ==
    IF i # S.size[l]
    THEN IF pair_ne(S.data[l][i], S.data[r][i]) THEN FALSE ELSE EqualFrom(S, l, r, i + 1)
    ELSE TRUE

\* operator==(lhs, rhs)
map_equal(S, l, r) ==
    IF S.size[l] # S.size[r] THEN FALSE ELSE EqualFrom(S, l, r, 0)

\* A comparison that looks at the keys only.
LexFrom_keys_only(S, l, r, i) ==
    LET Keys(c) == [k \in 1..S.size[c] |-> S.data[c][k - 1].key]
        ka == Keys(l)
        kb == Keys(r)
    IN  \E p \in 0..Len(ka) :
          /\ p <= Len(kb) /\ SubSeq(ka, 1, p) = SubSeq(kb, 1, p)
          /\ IF p = Len(ka) THEN p < Len(kb) ELSE p < Len(kb) /\ ka[p + 1] < kb[p + 1]

RECURSIVE LexFrom(_, _, _, _)
\* std::lexicographical_compare(lhs.begin(), lhs.end(), rhs.begin(), rhs.end()):
\* for (; first1 != last1 && first2 != last2; ++first1, ++first2) {
\*     if (*first1 < *first2) return true;  if (*first2 < *first1) return false; }
\* return first1 == last1 && first2 != last2;
LexFrom(S, l, r, i) ==
    IF i # S.size[l] /\ i # S.size[r]
    THEN IF pair_lt(S.data[l][i], S.data[r][i]) THEN TRUE
         ELSE IF pair_lt(S.data[r][i], S.data[l][i]) THEN FALSE
         ELSE LexFrom(S, l, r, i + 1)
    ELSE i = S.size[l] /\ i # S.size[r]

\* operator<(lhs, rhs)
map_less(S, l, r) == LexFrom(S, l, r, 0)

\* operator!=, operator<=, operator>, operator>=
map_not_equal(S, l, r) == ~map_equal(S, l, r)

map_less_equal(S, l, r) == ~map_less(S, r, l)

map_greater(S, l, r) == map_less(S, r, l)

map_greater_equal(S, l, r) == ~map_less(S, l, r)

RECURSIVE InsertAll(_, _, _, _, _)
\* for (i = 0; i < other.m_size; ++i) insert(other.m_data[i]);
InsertAll(S, c, d, i, g) ==
    IF i < S.size[d]
    THEN InsertAll(map_insert(NoteRead(S, d, i), c, ReadCell(S, d, i, g), g).S, c, d, i + 1, g)
    ELSE S

\* operator=(const map& other)
map_copy_assign(S, c, d, g) ==
    IF c # d THEN InsertAll(map_clear(S, c), c, d, 0, g) ELSE S

\* ------------------------------------------------------------------ sort
\* comp(lhs, rhs) for the elements of a sorted range: the order of their keys;
\* the val field of an element takes no part in it.
elem_comp(lhs, rhs) == key_comp(lhs.key, rhs.key)

\* What a cell holds after std::move(cell): a valid element of unspecified
\* value.  The elements of a range have keys in Key, so this is none of them.
MovedFrom == Elem(0, 0)

\* x = std::move(m_data[j]) leaves m_data[j] moved-from.
MoveOut(S, c, j) == AssignCell(NoteRead(S, c, j), c, j, MovedFrom)

RECURSIVE SortInner_not_less(_, _, _, _, _, _)
\* An inner loop that also shifts the elements equivalent to key.
SortInner_not_less(S, c, first, j, key, g) ==
    IF j > first /\ ~elem_comp(ReadCell(S, c, j - 1, g), key)
    THEN LET x == ReadCell(S, c, j - 1, g)
             S1 == AssignCell(MoveOut(S, c, j - 1), c, j, x)
         IN  SortInner_not_less(S1, c, first, j - 1, key, g)
    ELSE [S |-> S, idx |-> j, flag |-> FALSE]

RECURSIVE SortInner(_, _, _, _, _, _)
\* while (j > first && comp(key, *(j - 1))) { *j = std::move(*(j - 1)); --j; }
\* The final record and the final j (in idx).
SortInner(S, c, first, j, key, g) ==
    IF j > first /\ elem_comp(key, ReadCell(S, c, j - 1, g))
    THEN LET x == ReadCell(S, c, j - 1, g)
             S1 == AssignCell(MoveOut(S, c, j - 1), c, j, x)
         IN  SortInner(S1, c, first, j - 1, key, g)
    ELSE [S |-> S, idx |-> j, flag |-> FALSE]

RECURSIVE SortOuter(_, _, _, _, _, _)
\* for (it = first + 1; it != last; ++it) {
\*     auto key = std::move(*it); j = it; <inner loop>; *j = std::move(key); }
SortOuter(S, c, first, lst, it, g) ==
    IF it = lst
    THEN S
    ELSE LET key == ReadCell(S, c, it, g)
             r == SortInner(MoveOut(S, c, it), c, first, it, key, g)
         IN  SortOuter(AssignCell(r.S, c, r.idx, key), c, first, lst, it + 1, g)

\* estl::sort(first, last, comp) over the cells [first, lst) of c.
estl_sort(S, c, first, lst, g) ==
    IF first = lst \/ first + 1 = lst
    THEN S
    ELSE SortOuter(S, c, first, lst, first + 1, g)

\* ------------------------------------------------------------------ steps
\* How the program goes on after a handler that ended in S.  ESTL_ASSERT is a
\* hook (config.hpp): assert() in a debug build, which aborts, and ((void)0)
\* under NDEBUG, which returns.  A destructor call or a read on an empty cell,
\* and a write outside the storage block (which lands on m_data, m_size or the
\* caller's memory), are undefined behaviour: the run is followed up to the
\* first one and no further.
Outcomes(S) ==
    IF S.oob \/ S.viol # {} THEN {"fault"}
    ELSE IF S.asserted THEN {"abort", "no"}
    ELSE {"no"}

\* The state an operation leaves: the handler's final record S, the bool it
\* returned (flag; FALSE for the others) and how the program goes on (h).
CommitAs(S, op, flag, h) ==
    /\ m_data' = S.data
    /\ m_size' = S.size
    /\ bal' = S.bal
    /\ last' = [op |-> op, flag |-> flag,
                viol |-> S.viol, oob |-> S.oob, asserted |-> S.asserted]
    /\ halted' = h
    /\ cur' = NoCursor
    /\ UNCHANGED <<kind, alive>>

Commit(S, op, flag) ==
    \E h \in Outcomes(S) : CommitAs(S, op, flag, h)

Running(c) == halted = "no" /\ alive[c]

\* What the bytes of an empty cell may hold.
Garbage == {Elem(k, v) : k \in (IF kind = "map" THEN Key ELSE {0}), v \in Val}

\* Runs the handler H with what the bytes of the empty cells hold and hands its
\* result to C: every value when the handler reads an empty cell, and any one
\* value when it reads none (its result is then the same for all).
WithGarbage(H(_), C(_)) ==
    LET g0 == CHOOSE g \in Garbage : TRUE
        r0 == H(g0)
    IN  IF "read_empty" \in r0.S.viol
        THEN \E g \in Garbage : C(H(g))
        ELSE C(r0)

\* The result of a handler that returns nothing.
Void(S) == [S |-> S, idx |-> 0, flag |-> FALSE]

\* ---- vector
VecPushBack(c, v) ==
    /\ kind = "vector" /\ Running(c)
    /\ Commit(vector_push_back(Start, c, Elem(0, v)), "push_back", FALSE)

VecPopBack(c) ==
    /\ kind = "vector" /\ Running(c)
    /\ Commit(vector_pop_back(Start, c), "pop_back", FALSE)

VecInsert(c, index, v) ==
    /\ kind = "vector" /\ Running(c)
    /\ WithGarbage(LAMBDA g : Void(vector_insert(Start, c, index, Elem(0, v), g)),
                   LAMBDA r : Commit(r.S, "insert", FALSE))

\* v.insert(v.begin() + index, v[j])
VecInsertAlias(c, index, j) ==
    /\ kind = "vector" /\ Running(c)
    /\ WithGarbage(LAMBDA g : Void(vector_insert_alias(Start, c, index, j, g)),
                   LAMBDA r : Commit(r.S, "insert_alias", FALSE))

\* estl::sort(v.begin() + first, v.begin() + last, comp)
VecSort(c, first, lst) ==
    /\ kind = "vector" /\ Running(c)
    /\ WithGarbage(LAMBDA g : Void(estl_sort(Start, c, first, lst, g)),
                   LAMBDA r : Commit(r.S, "sort", FALSE))

VecErase(c, index) ==
    /\ kind = "vector" /\ Running(c)
    /\ WithGarbage(LAMBDA g : Void(vector_erase(Start, c, index, g)),
                   LAMBDA r : Commit(r.S, "erase", FALSE))

VecResize(c, n, v) ==
    /\ kind = "vector" /\ Running(c)
    /\ Commit(vector_resize(Start, c, n, Elem(0, v)), "resize", FALSE)

VecAssignN(c, n, v) ==
    /\ kind = "vector" /\ Running(c)
    /\ Commit(vector_assign_n(Start, c, n, Elem(0, v)), "assign", FALSE)

VecClear(c) ==
    /\ kind = "vector" /\ Running(c)
    /\ Commit(vector_clear(Start, c), "clear", FALSE)

VecCopyAssign(c, d) ==
    /\ kind = "vector" /\ Running(c) /\ Running(d)
    /\ Commit(vector_copy_assign(Start, c, d), "copy_assign", FALSE)

VecSwap(c, d) ==
    /\ kind = "vector" /\ Running(c) /\ Running(d)
    /\ WithGarbage(LAMBDA g : Void(vector_swap(Start, c, d, g)),
                   LAMBDA r : Commit(r.S, "swap", FALSE))

\* assign(first, last) over a range of the caller's that holds the values src.
VecAssignRange(c, src) ==
    /\ kind = "vector" /\ Running(c)
    /\ Commit(vector_assign_range(Start, c, [k \in 1..Len(src) |-> Elem(0, src[k])]),
              "assign_range", FALSE)

\* v.at(pos); the reference returned is not used.
VecAt(c, pos) ==
    /\ kind = "vector" /\ Running(c)
    /\ Commit(vector_at(Start, c, pos).S, "at", FALSE)

\* ---- map
MapInsert(c, k, v) ==
    /\ kind = "map" /\ Running(c)
    /\ WithGarbage(LAMBDA g : map_insert(Start, c, Elem(k, v), g),
                   LAMBDA r : Commit(r.S, "insert", r.flag))

MapErasePos(c, index) ==
    /\ kind = "map" /\ Running(c)
    /\ WithGarbage(LAMBDA g : Void(map_erase_pos(Start, c, index, g)),
                   LAMBDA r : Commit(r.S, "erase_pos", FALSE))

MapEraseKey(c, k) ==
    /\ kind = "map" /\ Running(c)
    /\ WithGarbage(LAMBDA g : map_erase_key(Start, c, k, g),
                   LAMBDA r : Commit(r.S, "erase_key", r.flag))

MapClear(c) ==
    /\ kind = "map" /\ Running(c)
    /\ Commit(map_clear(Start, c), "clear", FALSE)

\* m[k]; the reference returned is not used.
MapSubscript(c, k) ==
    /\ kind = "map" /\ Running(c)
    /\ WithGarbage(LAMBDA g : map_subscript(Start, c, k, g),
                   LAMBDA r : Commit(r.S, "subscript", r.flag))

\* m[k] = v (map_example: devices[4] = DeviceInfo(...)): operator[], then an
\* assignment through the reference it returned, unless the assert aborted.
MapSubscriptAssign(c, k, v) ==
    /\ kind = "map" /\ Running(c)
    /\ WithGarbage(LAMBDA g : map_subscript(Start, c, k, g),
                   LAMBDA r : \/ /\ r.S.asserted
                                 /\ CommitAs(r.S, "subscript_assign", r.flag, "abort")
                              \/ Commit(AssignSecond(r.S, c, r.idx, v), "subscript_assign", r.flag))

MapCopyAssign(c, d) ==
    /\ kind = "map" /\ Running(c) /\ Running(d)
    /\ WithGarbage(LAMBDA g : Void(map_copy_assign(Start, c, d, g)),
                   LAMBDA r : Commit(r.S, "copy_assign", FALSE))

MapSwap(c, d) ==
    /\ kind = "map" /\ Running(c) /\ Running(d)
    /\ WithGarbage(LAMBDA g : Void(map_swap(Start, c, d, g)),
                   LAMBDA r : Commit(r.S, "swap", FALSE))

\* m.find(k); flag tells whether the iterator returned is not end().
MapFind(c, k) ==
    /\ kind = "map" /\ Running(c)
    /\ Commit(Start, "find", map_find(Start, c, k) # m_size[c])

\* m.at(k); the reference returned is not used.
MapAt(c, k) ==
    /\ kind = "map" /\ Running(c)
    /\ Commit(map_at(Start, c, k).S, "at", map_at(Start, c, k).flag)

\* c == d and c < d; flag is the bool returned.
MapEqual(c, d) ==
    /\ kind = "map" /\ Running(c) /\ Running(d)
    /\ Commit(Start, "equal", map_equal(Start, c, d))

MapLess(c, d) ==
    /\ kind = "map" /\ Running(c) /\ Running(d)
    /\ Commit(Start, "less", map_less(Start, c, d))

\* m.equal_range(k): lower_bound(k), then upper_bound(k); flag tells whether
\* the two iterators of the pair returned differ.
MapEqualRange(c, k) ==
    /\ kind = "map" /\ Running(c)
    /\ Commit(Start, "equal_range", map_lower_bound(Start, c, k) # map_upper_bound(Start, c, k))

\* ---- cursors
\* ++it and --it on a map iterator (++m_index, --m_index on a size_type) and
\* on a vector iterator (a pointer into m_data, as its offset).
iterator_increment(idx) == (idx + 1) % (SizeMax + 1)

iterator_decrement(idx) == (idx - 1) % (SizeMax + 1)

\* A reverse_iterator whose operator* dereferences current itself.
reverse_deref_current(current) == current

\* reverse_iterator::operator*: temp = current; return *--temp;
\* the index dereferenced.
reverse_deref(current) == iterator_decrement(current)

\* reverse_iterator::operator++: --current;
reverse_increment(current) == iterator_decrement(current)

\* What a step of the caller's loop that dereferenced index i leaves: the
\* container as it was; reading a cell that holds no element is undefined.
CursorStep(c, i, next) ==
    /\ cur' = [cur EXCEPT !.idx = next, !.n = @ + 1, !.seen = Append(@, i)]
    /\ halted' = IF i < Capacity /\ m_data[c][i].occ THEN "no" ELSE "fault"
    /\ UNCHANGED <<kind, m_data, m_size, alive, bal, last>>

\* it = c.begin()
CursorBegin(c) ==
    /\ Running(c)
    /\ cur' = [dir |-> "fwd", c |-> c, idx |-> 0, n |-> 0, seen |-> <<>>]
    /\ UNCHANGED <<kind, m_data, m_size, alive, bal, halted, last>>

\* rit = c.rbegin(): reverse_iterator(end())
CursorRBegin(c) ==
    /\ Running(c)
    /\ cur' = [dir |-> "rev", c |-> c, idx |-> m_size[c], n |-> 0, seen |-> <<>>]
    /\ UNCHANGED <<kind, m_data, m_size, alive, bal, halted, last>>

\* One turn of for (...; it != c.end(); ++it) use(*it);
CursorNext ==
    /\ cur.dir = "fwd" /\ Running(cur.c)
    /\ cur.idx # m_size[cur.c]
    /\ CursorStep(cur.c, cur.idx, iterator_increment(cur.idx))

\* One turn of for (...; rit != c.rend(); ++rit) use(*rit);  rend() is
\* reverse_iterator(begin()), and two reverse iterators are equal when their
\* base iterators are.
CursorRNext ==
    /\ cur.dir = "rev" /\ Running(cur.c)
    /\ cur.idx # 0
    /\ CursorStep(cur.c, reverse_deref(cur.idx), reverse_increment(cur.idx))

\* ---- lifetime
\* The end of c's lifetime.  Neither class declares a destructor: the implicit
\* one destroys the members m_storage, m_data and m_size and no element.
Destruct(c) ==
    /\ Running(c)
    /\ alive' = [alive EXCEPT ![c] = FALSE]
    /\ last' = [op |-> "destruct", flag |-> FALSE,
                viol |-> {}, oob |-> FALSE, asserted |-> FALSE]
    /\ cur' = NoCursor
    /\ UNCHANGED <<kind, m_data, m_size, bal, halted>>

\* vector() : m_size(0) {} and map() : m_size(0) {} on fresh storage.
DefaultConstruct(c) ==
    /\ halted = "no" /\ ~alive[c]
    /\ alive' = [alive EXCEPT ![c] = TRUE]
    /\ m_data' = [m_data EXCEPT ![c] = [i \in Slots |-> EmptyCell]]
    /\ m_size' = [m_size EXCEPT ![c] = 0]
    /\ bal' = [bal EXCEPT ![c] = 0]
    /\ last' = [op |-> "construct", flag |-> FALSE,
                viol |-> {}, oob |-> FALSE, asserted |-> FALSE]
    /\ cur' = NoCursor
    /\ UNCHANGED <<kind, halted>>

\* ------------------------------------------------------------------ system
Init ==
    /\ kind \in {"vector", "map"}
    /\ m_data = [c \in Inst |-> [i \in Slots |-> EmptyCell]]
    /\ m_size = [c \in Inst |-> 0]
    /\ alive = [c \in Inst |-> TRUE]
    /\ bal = [c \in Inst |-> 0]
    /\ halted = "no"
    /\ last = [op |-> "construct", flag |-> FALSE,
                viol |-> {}, oob |-> FALSE, asserted |-> FALSE]
    /\ cur = NoCursor

\* The operations on one instance, with every argument a caller can form.
Next ==
    \/ \E v \in Val : VecPushBack("a", v)
    \/ VecPopBack("a")
    \/ \E i \in Positions, v \in Val : VecInsert("a", i, v)
    \/ \E i \in Positions : VecErase("a", i)
    \/ \E n \in 0..(Capacity + 1), v \in Val : VecResize("a", n, v)
    \/ \E n \in 0..(Capacity + 1), v \in Val : VecAssignN("a", n, v)
    \/ VecClear("a")
    \/ \E k \in Key, v \in Val : MapInsert("a", k, v)
    \/ \E i \in Positions : MapErasePos("a", i)
    \/ \E k \in Key : MapEraseKey("a", k)
    \/ MapClear("a")
    \/ \E k \in Key : MapSubscript("a", k)
    \/ \E k \in Key, v \in Val : MapSubscriptAssign("a", k, v)
    \/ Destruct("a")
    \/ DefaultConstruct("a")

Spec == Init /\ [][Next]_vars

\* The same, and the operations that take a second instance.
NextPair ==
    \/ \E v \in Val : VecPushBack("a", v)
    \/ VecPopBack("a")
    \/ \E i \in Positions, v \in Val : VecInsert("a", i, v)
    \/ \E i \in Positions : VecErase("a", i)
    \/ \E n \in 0..(Capacity + 1), v \in Val : VecResize("a", n, v)
    \/ \E n \in 0..(Capacity + 1), v \in Val : VecAssignN("a", n, v)
    \/ VecClear("a")
    \/ \E k \in Key, v \in Val : MapInsert("a", k, v)
    \/ \E i \in Positions : MapErasePos("a", i)
    \/ \E k \in Key : MapEraseKey("a", k)
    \/ MapClear("a")
    \/ \E k \in Key : MapSubscript("a", k)
    \/ \E k \in Key, v \in Val : MapSubscriptAssign("a", k, v)
    \/ \E c, d \in Inst : VecCopyAssign(c, d)
    \/ \E c, d \in Inst : VecSwap(c, d)
    \/ \E c, d \in Inst : MapCopyAssign(c, d)
    \/ \E c, d \in Inst : MapSwap(c, d)

SpecPair == Init /\ [][NextPair]_vars

\* Vectors only, every call within its stated preconditions: insert at
\* 0..size, erase at 0..size-1.
InitVec == Init /\ kind = "vector"

NextVecContract ==
    \/ \E v \in EndVal : VecPushBack("a", v)
    \/ VecPopBack("a")
    \/ \E i \in Positions, v \in EndVal : i <= m_size["a"] /\ VecInsert("a", i, v)
    \/ \E i \in Positions : i < m_size["a"] /\ VecErase("a", i)
    \/ \E n \in 0..(Capacity + 1), v \in EndVal : VecResize("a", n, v)
    \/ \E n \in 0..(Capacity + 1), v \in EndVal : VecAssignN("a", n, v)
    \/ VecClear("a")
    \/ \E c, d \in Inst : VecCopyAssign(c, d)
    \/ \E c, d \in Inst : VecSwap(c, d)

SpecVecContract == InitVec /\ [][NextVecContract]_vars

\* The ranges a caller hands to assign(first, last): up to Capacity + 1 values.
Ranges == UNION {[1..n -> EndVal] : n \in 0..(Capacity + 1)}

\* One vector: the calls on it within their preconditions, erase at every
\* position (the code checks index < size) and at().
NextVecOps ==
    \/ \E v \in Val : VecPushBack("a", v)
    \/ VecPopBack("a")
    \/ \E i \in Positions, v \in Val : i <= m_size["a"] /\ VecInsert("a", i, v)
    \/ \E i \in Positions : VecErase("a", i)
    \/ \E n \in 0..(Capacity + 1), v \in Val : VecResize("a", n, v)
    \/ \E n \in 0..(Capacity + 1), v \in Val : VecAssignN("a", n, v)
    \/ VecClear("a")
    \/ \E pos \in Positions : VecAt("a", pos)

SpecVecOps == InitVec /\ [][NextVecOps]_vars

\* One vector: the calls on it within their preconditions, and assign from
\* every range.
NextVecAssign ==
    \/ \E v \in EndVal : VecPushBack("a", v)
    \/ VecPopBack("a")
    \/ \E i \in Positions, v \in EndVal : i <= m_size["a"] /\ VecInsert("a", i, v)
    \/ \E i \in Positions : VecErase("a", i)
    \/ \E n \in 0..(Capacity + 1), v \in EndVal : VecResize("a", n, v)
    \/ \E n \in 0..(Capacity + 1), v \in EndVal : VecAssignN("a", n, v)
    \/ VecClear("a")
    \/ \E src \in Ranges : VecAssignRange("a", src)

SpecVecAssign == InitVec /\ [][NextVecAssign]_vars

\* Two vectors filled and emptied at the back, and swapped with each other.
NextVecSwap ==
    \/ \E c \in Inst, v \in Val : VecPushBack(c, v)
    \/ \E c \in Inst : VecPopBack(c)
    \/ \E c, d \in Inst : c # d /\ VecSwap(c, d)

SpecVecSwap == InitVec /\ [][NextVecSwap]_vars

\* Maps only: the operations on one instance with every argument a caller can
\* form, and the lookups.
InitMap == Init /\ kind = "map"

NextMapOps ==
    \/ \E k \in Key, v \in Val : MapInsert("a", k, v)
    \/ \E i \in Positions : MapErasePos("a", i)
    \/ \E k \in Key : MapEraseKey("a", k)
    \/ MapClear("a")
    \/ \E k \in Key : MapSubscript("a", k)
    \/ \E k \in Key, v \in Val : MapSubscriptAssign("a", k, v)
    \/ \E k \in Key : MapFind("a", k)
    \/ \E k \in Key : MapEqualRange("a", k)
    \/ \E k \in Key : MapAt("a", k)

SpecMapOps == InitMap /\ [][NextMapOps]_vars

\* One container, filled and emptied, and walked forward and backward by a
\* cursor between two changes.
NextIter ==
    \/ \E v \in EndVal : VecPushBack("a", v)
    \/ VecPopBack("a")
    \/ \E k \in Key, v \in EndVal : MapInsert("a", k, v)
    \/ \E k \in Key : MapEraseKey("a", k)
    \/ CursorBegin("a")
    \/ CursorRBegin("a")
    \/ CursorNext
    \/ CursorRNext

SpecIter == Init /\ [][NextIter]_vars

\* A value a caller maps key k to in instance c: it varies with the key, and
\* differs between the two instances for every key.
ValOf(c, k) == IF c = "a" THEN k % (MaxVal + 1) ELSE (k + 1) % (MaxVal + 1)

RECURSIVE Ascending(_)
\* The keys of K in the order the map keeps them.
Ascending(K) ==
    IF K = {} THEN <<>>
    ELSE LET lo == CHOOSE k \in K : \A j \in K : ~key_comp(j, k)
         IN  <<lo>> \o Ascending(K \ {lo})

\* The cells of a map that holds the keys K with the values f[k].
MapCells(K, f) ==
    LET keys == Ascending(K)
    IN  [i \in Slots |-> IF i < Len(keys)
                         THEN Cell(Elem(keys[i + 1], f[keys[i + 1]]))
                         ELSE EmptyCell]

\* Two maps as inserts leave them: any set of at most Capacity keys each, in
\* ascending order in the cells [0, size); a with any values, b with the
\* value ValOf("b", k) for each key k.
InitCompare ==
    /\ kind = "map"
    /\ \E Ka, Kb \in {K \in SUBSET Key : Cardinality(K) <= Capacity} :
         \E fa \in [Ka -> EndVal] :
            /\ m_data = [c \in Inst |-> IF c = "a" THEN MapCells(Ka, fa)
                                        ELSE MapCells(Kb, [k \in Kb |-> ValOf("b", k)])]
            /\ m_size = [c \in Inst |-> IF c = "a" THEN Cardinality(Ka) ELSE Cardinality(Kb)]
            /\ bal = [c \in Inst |-> IF c = "a" THEN Cardinality(Ka) ELSE Cardinality(Kb)]
    /\ alive = [c \in Inst |-> TRUE]
    /\ halted = "no"
    /\ last = [op |-> "insert", flag |-> TRUE,
                viol |-> {}, oob |-> FALSE, asserted |-> FALSE]
    /\ cur = NoCursor

\* The comparisons between the two maps, and of a map with itself.
NextCompare ==
    \/ \E c, d \in Inst : MapEqual(c, d)
    \/ \E c, d \in Inst : MapLess(c, d)

SpecCompare == InitCompare /\ [][NextCompare]_vars

\* Two maps built by inserts, then swapped with each other any number of times.
NextMapSwap ==
    \/ \E c \in Inst, k \in Key : last.op # "swap" /\ MapInsert(c, k, ValOf(c, k))
    \/ \E c, d \in Inst : c # d /\ MapSwap(c, d)

SpecMapSwap == InitMap /\ [][NextMapSwap]_vars

\* Both containers, every call within its stated preconditions: insert at
\* 0..size, erase at 0..size-1, operator[] of an absent key only when the map
\* is not full.
NextContract ==
    \/ NextVecContract
    \/ \E k \in Key, v \in Val : MapInsert("a", k, v)
    \/ \E i \in Positions : i < m_size["a"] /\ MapErasePos("a", i)
    \/ \E k \in Key : MapEraseKey("a", k)
    \/ MapClear("a")
    \/ \E k \in Key :
         /\ m_size["a"] < Capacity \/ map_find(Start, "a", k) # m_size["a"]
         /\ MapSubscript("a", k)
    \/ \E k \in Key, v \in Val :
         /\ m_size["a"] < Capacity \/ map_find(Start, "a", k) # m_size["a"]
         /\ MapSubscriptAssign("a", k, v)
    \/ \E c, d \in Inst : MapCopyAssign(c, d)
    \/ \E c, d \in Inst : MapSwap(c, d)

SpecContract == Init /\ [][NextContract]_vars

\* Two instances of either container: the calls on a within their
\* preconditions, and assignment between the two in both directions.
NextCopy ==
    \/ \E v \in EndVal : VecPushBack("a", v)
    \/ VecPopBack("a")
    \/ \E i \in Positions, v \in EndVal : i <= m_size["a"] /\ VecInsert("a", i, v)
    \/ \E i \in Positions : i < m_size["a"] /\ VecErase("a", i)
    \/ \E n \in 0..(Capacity + 1), v \in EndVal : VecResize("a", n, v)
    \/ \E n \in 0..(Capacity + 1), v \in EndVal : VecAssignN("a", n, v)
    \/ VecClear("a")
    \/ \E k \in Key, v \in EndVal : MapInsert("a", k, v)
    \/ \E i \in Positions : i < m_size["a"] /\ MapErasePos("a", i)
    \/ \E k \in Key : MapEraseKey("a", k)
    \/ MapClear("a")
    \/ \E k \in Key :
         /\ m_size["a"] < Capacity \/ map_find(Start, "a", k) # m_size["a"]
         /\ MapSubscript("a", k)
    \/ \E k \in Key, v \in EndVal :
         /\ m_size["a"] < Capacity \/ map_find(Start, "a", k) # m_size["a"]
         /\ MapSubscriptAssign("a", k, v)
    \/ \E c, d \in Inst : VecCopyAssign(c, d)
    \/ \E c, d \in Inst : MapCopyAssign(c, d)

SpecCopy == Init /\ [][NextCopy]_vars

\* One instance of either container with every argument a caller can form
\* for insert and erase, and the assignment of the instance to itself.
NextSelfAssign ==
    \/ \E v \in EndVal : VecPushBack("a", v)
    \/ VecPopBack("a")
    \/ \E i \in Positions, v \in EndVal : VecInsert("a", i, v)
    \/ \E i \in Positions : VecErase("a", i)
    \/ VecClear("a")
    \/ \E k \in Key : MapInsert("a", k, ValOf("a", k))
    \/ \E k \in Key : MapEraseKey("a", k)
    \/ MapClear("a")
    \/ VecCopyAssign("a", "a")
    \/ MapCopyAssign("a", "a")

SpecSelfAssign == Init /\ [][NextSelfAssign]_vars

\* One vector: the calls on it within their preconditions, and insert with an
\* argument that refers to an element of the vector itself.
NextVecAlias ==
    \/ \E v \in Val : VecPushBack("a", v)
    \/ VecPopBack("a")
    \/ \E i \in Positions, v \in Val : i <= m_size["a"] /\ VecInsert("a", i, v)
    \/ \E i \in Positions : VecErase("a", i)
    \/ VecClear("a")
    \/ \E i \in Positions, j \in Slots :
         i <= m_size["a"] /\ j < m_size["a"] /\ VecInsertAlias("a", i, j)

SpecVecAlias == InitVec /\ [][NextVecAlias]_vars

\* A vector of up to Capacity elements with any keys, each tagged in val with
\* the index it starts at, and estl::sort over every range of it.
InitSort ==
    /\ kind = "vector"
    /\ \E n \in 0..Capacity :
         \E f \in [0..(n - 1) -> Key] :
            /\ m_data = [c \in Inst |->
                           [i \in Slots |-> IF c = "a" /\ i < n
                                            THEN Cell(Elem(f[i], i))
                                            ELSE EmptyCell]]
            /\ m_size = [c \in Inst |-> IF c = "a" THEN n ELSE 0]
            /\ bal = [c \in Inst |-> IF c = "a" THEN n ELSE 0]
    /\ alive = [c \in Inst |-> TRUE]
    /\ halted = "no"
    /\ last = [op |-> "push_back", flag |-> FALSE,
                viol |-> {}, oob |-> FALSE, asserted |-> FALSE]
    /\ cur = NoCursor

NextSort ==
    \E first, lst \in Positions :
        first <= lst /\ lst <= m_size["a"] /\ VecSort("a", first, lst)

SpecSort == InitSort /\ [][NextSort]_vars

\* No operation has run into undefined behaviour.
NoFault == halted # "fault"

\* ------------------------------------------------------------------ claims
\* C1: after every call size() <= Capacity, and no operation constructs or
\* assigns into a slot with index >= Capacity.
C1_CapacityInvariant ==
    /\ \A c \in Inst : m_size[c] <= Capacity
    /\ ~last.oob

\* C2: after any sequence of map operations the entries of a map at [0, size)
\* are cells of the block that hold an element, and their keys are strictly
\* ascending under the comparator.
C2_MapSortedUnique ==
    kind = "map" =>
        \A c \in Inst :
            /\ m_size[c] <= Capacity
            /\ \A i \in 0..(m_size[c] - 1) : m_data[c][i].occ
            /\ \A i, j \in 0..(m_size[c] - 1) :
                 i < j => key_comp(m_data[c][i].key, m_data[c][j].key)

\* C3: after every vector operation called within its preconditions the
\* occupied cells are exactly the indices [0, size).
C3_VectorContiguous ==
    \A c \in Inst : Occupied(m_data[c]) = 0..(m_size[c] - 1)

C3_Witness ==
    /\ last.op = "erase"
    /\ m_size["a"] = Capacity - 1
    /\ m_size["b"] = Capacity

\* C4: in every operation, a placement-new targets an empty cell and a
\* destructor call, read or assignment targets an occupied cell of the block.
C4_SlotLifecycle ==
    last.viol = {} /\ ~last.oob

\* A step that attempts an insertion: vector::push_back, vector::insert at a
\* valid position, map::insert of a key that is not present.
InsertionAttempt ==
    \/ \E v \in Val : VecPushBack("a", v)
    \/ \E i \in 0..m_size["a"], v \in Val : VecInsert("a", i, v)
    \/ \E k \in Key, v \in Val :
         /\ map_find(Start, "a", k) = m_size["a"]
         /\ MapInsert("a", k, v)

\* C5: an insertion attempted when size == Capacity invokes the assertion hook
\* and leaves the size and every cell unchanged.
C5_CapacityExceededAtomic ==
    [][(m_size["a"] = Capacity /\ InsertionAttempt) =>
          (last'.asserted /\ m_data' = m_data /\ m_size' = m_size /\ bal' = bal)]_vars

C5_Witness ==
    /\ last.op = "insert" /\ last.asserted
    /\ m_size["a"] = Capacity
    /\ halted = "no"

\* C6: when the lifetime of an instance has ended, all its cells are empty and
\* it has destroyed as many elements as it constructed.
C6_DestructionDestroysAll ==
    \A c \in Inst : ~alive[c] => (Occupied(m_data[c]) = {} /\ bal[c] = 0)

\* C7: after every completed operation, placement-news minus destructor calls
\* on the cells of an instance equal its size.
C7_ConstructionBalance ==
    \A c \in Inst : bal[c] = m_size[c]

\* C8: insert((k, v)) with k present leaves the size and every entry unchanged
\* and returns false with the position of the entry for k.
C8_NoDoubleInsertion ==
    [][\A k \in Key, v \in Val :
          (map_find(Start, "a", k) # m_size["a"] /\ MapInsert("a", k, v)) =>
              /\ m_data' = m_data /\ m_size' = m_size
              /\ ~last'.flag /\ ~last'.asserted
              /\ LET r == map_insert(Start, "a", Elem(k, v), Elem(k, v))
                 IN  /\ ~r.flag
                     /\ r.idx < m_size["a"]
                     /\ m_data["a"][r.idx].key = k]_vars

C8_Witness ==
    /\ kind = "map" /\ last.op = "insert"
    /\ ~last.flag /\ ~last.asserted
    /\ m_size["a"] = 2

\* C9 as stated: insert((k, v)) followed by find(k) returns an iterator, not
\* end, to an entry whose value equals v.
C9_InsertFindRoundTrip ==
    [][\A k \in Key, v \in Val :
          (MapInsert("a", k, v) /\ halted' = "no") =>
              LET it == FindFrom(m_data'["a"], m_size'["a"], k, 0)
              IN  it # m_size'["a"] /\ m_data'["a"][it].val = v]_vars

\* C9 amended: when insert((k, v)) returns true, find(k) then returns an
\* iterator, not end, to an entry with key k and value v; when it returns false
\* because k is present, find(k) returns the entry that was there, with the
\* value it had; when it returns false because the map is full, find(k)
\* returns end.
C9_InsertFindRoundTripAmended ==
    [][\A k \in Key, v \in Val :
          (MapInsert("a", k, v) /\ halted' = "no") =>
              LET it == FindFrom(m_data'["a"], m_size'["a"], k, 0)
                  was == map_find(Start, "a", k)
              IN  /\ last'.flag =>
                        /\ it # m_size'["a"]
                        /\ m_data'["a"][it].key = k
                        /\ m_data'["a"][it].val = v
                  /\ (~last'.flag /\ was # m_size["a"]) =>
                        /\ it = was
                        /\ m_data'["a"][it] = m_data["a"][was]
                  /\ (~last'.flag /\ was = m_size["a"]) =>
                        /\ m_size["a"] = Capacity
                        /\ it = m_size'["a"]]_vars

C9_Witness ==
    /\ kind = "map" /\ last.op = "insert" /\ last.flag
    /\ m_size["a"] = Capacity
    /\ \E i \in Slots : m_data["a"][i].val # DefaultT

\* C10: erase(k) followed by find(k) returns the end iterator.
C10_EraseFindRoundTrip ==
    [][\A k \in Key :
          MapEraseKey("a", k) =>
              /\ halted' = "no"
              /\ FindFrom(m_data'["a"], m_size'["a"], k, 0) = m_size'["a"]]_vars

C10_Witness ==
    /\ kind = "map" /\ last.op = "erase_key" /\ last.flag
    /\ m_size["a"] = 2

\* The elements of a container in index order: its cells at [0, size).
Sequence(cells, size) == [k \in 1..size |-> cells[k - 1]]

\* C11: after c = d between two instances, c holds the sequence of elements d
\* holds and d is unchanged; and an operation on one instance leaves the size
\* and the cells of the other unchanged.
C11_CopyIndependence ==
    [][/\ \A c, d \in Inst :
            (/\ c # d /\ last'.op = "copy_assign"
             /\ VecCopyAssign(c, d) \/ MapCopyAssign(c, d)) =>
                /\ halted' = "no"
                /\ Sequence(m_data'[c], m_size'[c]) = Sequence(m_data[d], m_size[d])
                /\ Occupied(m_data'[c]) = 0..(m_size'[c] - 1)
                /\ m_data'[d] = m_data[d] /\ m_size'[d] = m_size[d]
       /\ last'.op \notin {"copy_assign", "swap"} =>
            /\ m_data'["b"] = m_data["b"]
            /\ m_size'["b"] = m_size["b"]]_vars

C11_Witness ==
    /\ last.op = "copy_assign" /\ halted = "no"
    /\ m_size["a"] = Capacity /\ m_size["b"] = Capacity
    /\ m_data["a"] = m_data["b"]

\* C12: insert(pos, v) with size < Capacity and 0 <= pos <= size turns
\* old[0..size) into old[0..pos) ++ [v] ++ old[pos..size), increments the size,
\* returns the position of the new element, and no step of the shift
\* constructs over a cell that still holds an element.
C12_VectorInsert ==
    [][\A i \in Positions, v \in Val :
          (/\ last'.op = "insert"
           /\ m_size["a"] < Capacity /\ i <= m_size["a"]
           /\ VecInsert("a", i, v)) =>
              LET old == Sequence(m_data["a"], m_size["a"])
                  new == Sequence(m_data'["a"], m_size'["a"])
              IN  /\ m_size'["a"] = m_size["a"] + 1
                  /\ new = SubSeq(old, 1, i) \o <<Cell(Elem(0, v))>>
                              \o SubSeq(old, i + 1, Len(old))
                  /\ m_data'["a"][IteratorAt(i)] = Cell(Elem(0, v))
                  /\ Occupied(m_data'["a"]) = 0..(m_size'["a"] - 1)
                  /\ last'.viol = {} /\ ~last'.oob /\ ~last'.asserted
                  /\ halted' = "no"]_vars

C12_Witness ==
    /\ last.op = "insert" /\ halted = "no"
    /\ m_size["a"] = Capacity
    /\ m_data["a"][0].val # m_data["a"][1].val
    /\ m_data["a"][1].val # m_data["a"][2].val

\* C13: erase(pos) with 0 <= pos < size turns the sequence into
\* old[0..pos) ++ old[pos+1..size), decrements the size and returns pos, which
\* then designates the element that followed the erased one, or end(); with
\* the index of pos >= size it leaves the vector unchanged.
C13_VectorErase ==
    [][\A i \in Positions :
          (last'.op = "erase" /\ VecErase("a", i)) =>
              LET old == Sequence(m_data["a"], m_size["a"])
                  new == Sequence(m_data'["a"], m_size'["a"])
              IN  /\ last'.viol = {} /\ ~last'.oob /\ halted' = "no"
                  /\ i < m_size["a"] =>
                        /\ m_size'["a"] = m_size["a"] - 1
                        /\ new = SubSeq(old, 1, i) \o SubSeq(old, i + 2, Len(old))
                        /\ Occupied(m_data'["a"]) = 0..(m_size'["a"] - 1)
                        /\ IteratorAt(i) <= m_size'["a"]
                        /\ IteratorAt(i) < m_size'["a"] =>
                              m_data'["a"][IteratorAt(i)] = m_data["a"][i + 1]
                  /\ i >= m_size["a"] =>
                        /\ m_data' = m_data /\ m_size' = m_size /\ bal' = bal]_vars

C13_Witness ==
    /\ last.op = "erase" /\ halted = "no"
    /\ m_size["a"] = 2
    /\ m_data["a"][0].val # m_data["a"][1].val

\* C14: push_back(v) with size < Capacity constructs v at index size,
\* increments the size and leaves the elements at [0, old size) unchanged.
C14_VectorPushBack ==
    [][\A v \in Val :
          (/\ last'.op = "push_back" /\ m_size["a"] < Capacity
           /\ VecPushBack("a", v)) =>
              /\ m_size' = [m_size EXCEPT !["a"] = @ + 1]
              /\ m_data' = [m_data EXCEPT !["a"][m_size["a"]] = Cell(Elem(0, v))]
              /\ ~m_data["a"][m_size["a"]].occ
              /\ last'.viol = {} /\ ~last'.oob /\ ~last'.asserted
              /\ halted' = "no"]_vars

C14_Witness ==
    /\ last.op = "push_back" /\ ~last.asserted
    /\ m_size["a"] = Capacity
    /\ m_data["a"][Capacity - 1].val # m_data["a"][0].val

\* C15: pop_back() with size > 0 destroys the last element and nothing else
\* and decrements the size; with size == 0 it changes nothing, so the size
\* never wraps below 0.
C15_VectorPopBack ==
    [][(last'.op = "pop_back" /\ VecPopBack("a")) =>
          /\ last'.viol = {} /\ ~last'.oob /\ halted' = "no"
          /\ m_size["a"] > 0 =>
                /\ m_size' = [m_size EXCEPT !["a"] = @ - 1]
                /\ m_data' = [m_data EXCEPT !["a"][m_size["a"] - 1] = EmptyCell]
                /\ bal' = [bal EXCEPT !["a"] = @ - 1]
          /\ m_size["a"] = 0 =>
                /\ m_size' = m_size /\ m_data' = m_data /\ bal' = bal]_vars

C15_Witness ==
    /\ last.op = "pop_back" /\ halted = "no"
    /\ m_size["a"] = 0 /\ bal["a"] = 0

\* The smaller of two numbers.
Min(x, y) == IF x < y THEN x ELSE y

\* C16: resize(n, value) sets the size to min(n, Capacity); the elements below
\* min(old size, new size) are unchanged, every newly occupied cell holds
\* value, and every cell at or beyond the new size is empty.
C16_VectorResize ==
    [][\A n \in 0..(Capacity + 1), v \in Val :
          (last'.op = "resize" /\ VecResize("a", n, v)) =>
              LET new == Min(n, Capacity)
                  old == m_size["a"]
              IN  /\ m_size'["a"] = new
                  /\ \A i \in Slots :
                        /\ i < Min(old, new) => m_data'["a"][i] = m_data["a"][i]
                        /\ (old <= i /\ i < new) => m_data'["a"][i] = Cell(Elem(0, v))
                        /\ i >= new => ~m_data'["a"][i].occ
                  /\ last'.viol = {} /\ ~last'.oob /\ ~last'.asserted
                  /\ halted' = "no"
                  /\ m_data'["b"] = m_data["b"] /\ m_size'["b"] = m_size["b"]]_vars

C16_Witness ==
    /\ last.op = "resize" /\ halted = "no"
    /\ m_size["a"] = Capacity
    /\ m_data["a"][0].val # m_data["a"][Capacity - 1].val

\* C17: assign(first, last) and assign(n, value) replace the whole content:
\* the size is min(source length, Capacity), the elements are the first that
\* many source elements in order, the cells beyond are empty, and no
\* capacity-exceeded condition is raised.
C17_VectorAssign ==
    [][/\ \A src \in Ranges :
            (last'.op = "assign_range" /\ VecAssignRange("a", src)) =>
                /\ m_size'["a"] = Min(Len(src), Capacity)
                /\ \A i \in Slots :
                      m_data'["a"][i] = IF i < Len(src)
                                        THEN Cell(Elem(0, src[i + 1]))
                                        ELSE EmptyCell
                /\ last'.viol = {} /\ ~last'.oob /\ ~last'.asserted
                /\ halted' = "no"
       /\ \A n \in 0..(Capacity + 1), v \in Val :
            (last'.op = "assign" /\ VecAssignN("a", n, v)) =>
                /\ m_size'["a"] = Min(n, Capacity)
                /\ \A i \in Slots :
                      m_data'["a"][i] = IF i < n THEN Cell(Elem(0, v)) ELSE EmptyCell
                /\ last'.viol = {} /\ ~last'.oob /\ ~last'.asserted
                /\ halted' = "no"]_vars

C17_Witness ==
    /\ last.op = "assign_range" /\ halted = "no"
    /\ m_size["a"] = Capacity
    /\ m_data["a"][0].val # m_data["a"][1].val

\* C18: after c.swap(d) on two vectors of any sizes, c holds d's former
\* sequence and size, d holds c's, and the occupied cells of each are exactly
\* [0, its new size).
C18_VectorSwap ==
    [][\A c, d \in Inst :
          (last'.op = "swap" /\ c # d /\ VecSwap(c, d)) =>
              /\ m_size'[c] = m_size[d] /\ m_size'[d] = m_size[c]
              /\ Sequence(m_data'[c], m_size'[c]) = Sequence(m_data[d], m_size[d])
              /\ Sequence(m_data'[d], m_size'[d]) = Sequence(m_data[c], m_size[c])
              /\ Occupied(m_data'[c]) = 0..(m_size'[c] - 1)
              /\ Occupied(m_data'[d]) = 0..(m_size'[d] - 1)
              /\ last'.viol = {} /\ ~last'.oob /\ halted' = "no"]_vars

C18_Witness ==
    /\ kind = "vector" /\ last.op = "swap" /\ halted = "no"
    /\ m_size["a"] = 1 /\ m_size["b"] = Capacity
    /\ m_data["b"][0].val # m_data["b"][1].val

\* C19: at(pos) leaves the vector unchanged; for pos < size it yields the
\* element at index pos; for pos >= size it reports the out-of-range condition
\* and does not return, so it never yields a reference to a cell outside
\* [0, size).
C19_VectorAtChecked ==
    [][\A pos \in Positions :
          (last'.op = "at" /\ VecAt("a", pos)) =>
              /\ m_data' = m_data /\ m_size' = m_size /\ bal' = bal
              /\ pos >= m_size["a"] => last'.asserted
              /\ halted' = "no" =>
                    /\ vector_at(Start, "a", pos).idx < m_size["a"]
                    /\ m_data["a"][vector_at(Start, "a", pos).idx].occ]_vars

\* C20: find(key) returns the position of the one entry whose key is
\* equivalent to key under the comparator when there is one, and end()
\* otherwise; it does not modify the map; count(key) is 1 exactly when
\* find(key) is not end(), and 0 otherwise.
C20_MapFind ==
    [][\A k \in Key :
          (last'.op = "find" /\ MapFind("a", k)) =>
              LET it == map_find(Start, "a", k)
                  hits == {i \in 0..(m_size["a"] - 1) :
                              /\ m_data["a"][i].occ
                              /\ ~key_comp(m_data["a"][i].key, k)
                              /\ ~key_comp(k, m_data["a"][i].key)}
              IN  /\ m_data' = m_data /\ m_size' = m_size /\ bal' = bal
                  /\ last'.viol = {} /\ halted' = "no"
                  /\ Cardinality(hits) <= 1
                  /\ hits # {} => it \in hits
                  /\ hits = {} => it = m_size["a"]
                  /\ last'.flag = (it # m_size["a"])
                  /\ map_count(Start, "a", k) = Cardinality(hits)]_vars

C20_Witness ==
    /\ kind = "map" /\ last.op = "find" /\ last.flag
    /\ m_size["a"] = Capacity

\* The first index of set, and size (the end position) when set is empty.
FirstIn(set, size) ==
    IF set = {} THEN size ELSE CHOOSE i \in set : \A j \in set : i <= j

\* C21: in every map state and for every key, lower_bound(key) is the first
\* index whose key is not less than key and upper_bound(key) the first index
\* whose key is greater than key (end() when there is none); lower_bound <=
\* upper_bound; the range [lower_bound, upper_bound) holds at most one entry,
\* and exactly one precisely when find(key) hits, and then it is that entry.
C21_MapBounds ==
    [][\A k \in Key :
          (last'.op = "equal_range" /\ MapEqualRange("a", k)) =>
              LET cells == m_data["a"]
                  size == m_size["a"]
                  lb == map_lower_bound(Start, "a", k)
                  ub == map_upper_bound(Start, "a", k)
                  it == map_find(Start, "a", k)
                  notless == {i \in 0..(size - 1) : ~(cells[i].key < k)}
                  greater == {i \in 0..(size - 1) : cells[i].key > k}
              IN  /\ lb = FirstIn(notless, size)
                  /\ ub = FirstIn(greater, size)
                  /\ lb <= ub /\ ub <= size
                  /\ ub - lb <= 1
                  /\ (ub - lb = 1) <=> (it # size)
                  /\ it # size => (lb = it /\ cells[lb].occ /\ cells[lb].key = k)
                  /\ last'.flag = (it # size)
                  /\ m_data' = m_data /\ m_size' = m_size /\ bal' = bal
                  /\ last'.viol = {} /\ halted' = "no"]_vars

C21_Witness ==
    /\ kind = "map" /\ last.op = "equal_range" /\ last.flag
    /\ m_size["a"] = Capacity
    /\ \E k \in Key : /\ map_lower_bound(Start, "a", k) = 1
                       /\ map_upper_bound(Start, "a", k) = 2

\* C22: insert of an entry whose key is absent, with size < Capacity, places
\* the entry at the first index whose key is greater than the new key (the
\* end when there is none), keeps the previous entries with their values in
\* their order, increments size by one and returns true with the position of
\* the new entry; the keys are then ascending.
C22_MapInsertSorted ==
    [][\A k \in Key, v \in Val :
          (/\ last'.op = "insert"
           /\ m_size["a"] < Capacity
           /\ map_find(Start, "a", k) = m_size["a"]
           /\ MapInsert("a", k, v)) =>
              LET size == m_size["a"]
                  old == Sequence(m_data["a"], size)
                  new == Sequence(m_data'["a"], m_size'["a"])
                  greater == {i \in 0..(size - 1) : m_data["a"][i].key > k}
                  pos == FirstIn(greater, size)
                  ret == map_insert(Start, "a", Elem(k, v), Elem(0, 0))
              IN  /\ m_size'["a"] = size + 1
                  /\ new = SubSeq(old, 1, pos) \o <<Cell(Elem(k, v))>> \o SubSeq(old, pos + 1, size)
                  /\ Occupied(m_data'["a"]) = 0..size
                  /\ \A i, j \in 0..size : i < j => m_data'["a"][i].key < m_data'["a"][j].key
                  /\ last'.flag /\ ret.flag /\ ret.idx = pos
                  /\ m_data'["a"][ret.idx] = Cell(Elem(k, v))
                  /\ last'.viol = {} /\ ~last'.oob /\ ~last'.asserted
                  /\ halted' = "no"]_vars

C22_Witness ==
    /\ kind = "map" /\ last.op = "insert" /\ last.flag /\ halted = "no"
    /\ m_size["a"] = 3
    /\ m_data["a"][0].key = 1 /\ m_data["a"][1].key = 2 /\ m_data["a"][2].key = 3

\* C23: erase(key) returns 1 if key was present and 0 otherwise; size
\* decreases by exactly the count returned; the entries with other keys keep
\* their values and their order; when key is absent the map is unchanged.
C23_MapEraseKey ==
    [][\A k \in Key :
          (last'.op = "erase_key" /\ MapEraseKey("a", k)) =>
              LET size == m_size["a"]
                  old == Sequence(m_data["a"], size)
                  new == Sequence(m_data'["a"], m_size'["a"])
                  present == \E i \in 0..(size - 1) : m_data["a"][i].key = k
                  ret == map_erase_key(Start, "a", k, Elem(0, 0))
                  Other(cell) == cell.key # k
              IN  /\ ret.idx = (IF present THEN 1 ELSE 0)
                  /\ last'.flag = present
                  /\ m_size'["a"] = size - ret.idx
                  /\ new = SelectSeq(old, Other)
                  /\ Occupied(m_data'["a"]) = 0..(m_size'["a"] - 1)
                  /\ ~present => (m_data' = m_data /\ bal' = bal)
                  /\ present => bal'["a"] = bal["a"] - 1
                  /\ last'.viol = {} /\ ~last'.oob /\ ~last'.asserted
                  /\ halted' = "no"]_vars

C23_Witness ==
    /\ kind = "map" /\ last.op = "erase_key" /\ last.flag /\ halted = "no"
    /\ m_size["a"] = 2
    /\ m_data["a"][0].key = 1 /\ m_data["a"][1].key = 3
    /\ m_data["a"][0].val # m_data["a"][1].val

\* C24: operator[](key) on a hit returns a reference to the existing value
\* and leaves the map unchanged; on a miss with size < Capacity it inserts
\* (key, default V) at the sorted position, increments size by one and
\* returns a reference to the newly stored value; a write through the
\* reference changes that value and nothing else.
C24_MapSubscript ==
    [][\A k \in Key :
          LET size == m_size["a"]
              old == Sequence(m_data["a"], size)
              new == Sequence(m_data'["a"], m_size'["a"])
              it == map_find(Start, "a", k)
              hit == it # size
              greater == {i \in 0..(size - 1) : m_data["a"][i].key > k}
              pos == FirstIn(greater, size)
              ret == map_subscript(Start, "a", k, Elem(0, 0))
              Stored(v) == IF hit
                           THEN [old EXCEPT ![it + 1].val = v]
                           ELSE SubSeq(old, 1, pos) \o <<Cell(Elem(k, v))>> \o SubSeq(old, pos + 1, size)
          IN  /\ (/\ last'.op = "subscript"
                  /\ hit \/ size < Capacity
                  /\ MapSubscript("a", k)) =>
                     /\ hit => (ret.idx = it /\ m_data' = m_data /\ m_size' = m_size /\ bal' = bal)
                     /\ ~hit => (/\ ret.idx = pos
                                 /\ m_size'["a"] = size + 1
                                 /\ new = Stored(DefaultT))
                     /\ m_data'["a"][ret.idx].occ /\ m_data'["a"][ret.idx].key = k
                     /\ Occupied(m_data'["a"]) = 0..(m_size'["a"] - 1)
                     /\ last'.flag = ~hit
                     /\ last'.viol = {} /\ ~last'.oob /\ ~last'.asserted
                     /\ halted' = "no"
              /\ \A v \in Val :
                    (/\ last'.op = "subscript_assign"
                     /\ hit \/ size < Capacity
                     /\ MapSubscriptAssign("a", k, v)) =>
                        /\ m_size'["a"] = (IF hit THEN size ELSE size + 1)
                        /\ new = Stored(v)
                        /\ Occupied(m_data'["a"]) = 0..(m_size'["a"] - 1)
                        /\ last'.viol = {} /\ ~last'.oob /\ ~last'.asserted
                        /\ halted' = "no"]_vars

C24_Witness ==
    /\ kind = "map" /\ last.op = "subscript" /\ last.flag /\ halted = "no"
    /\ m_size["a"] = Capacity
    /\ m_data["a"][2].key = 4 /\ m_data["a"][2].val = DefaultT
    /\ m_data["a"][0].val # DefaultT /\ m_data["a"][1].val # DefaultT

\* C25: operator[](key) on a miss when size = Capacity leaves the map
\* unchanged, and when it returns, the reference it yields designates a cell
\* of [0, size), never slot Capacity; a write through the result does not
\* land outside the storage block.
C25_SubscriptFullMap ==
    [][\A k \in Key :
          LET size == m_size["a"]
              miss == map_find(Start, "a", k) = size
              ret == map_subscript(Start, "a", k, Elem(0, 0))
          IN  /\ (/\ last'.op = "subscript"
                  /\ miss /\ size = Capacity
                  /\ MapSubscript("a", k)) =>
                     /\ m_data' = m_data /\ m_size' = m_size
                     /\ halted' = "no" => ret.idx < size
              /\ \A v \in Val :
                    (/\ last'.op = "subscript_assign"
                     /\ miss /\ size = Capacity
                     /\ MapSubscriptAssign("a", k, v)) =>
                        /\ m_data' = m_data /\ m_size' = m_size
                        /\ ~last'.oob /\ halted' # "fault"]_vars

\* C26: at(key) never inserts or default-constructs (size and contents
\* unchanged); on a hit it returns the value mapped to key; on a miss it
\* reports the fatal condition and does not return, so it never yields a
\* reference to the empty cell at index size.
C26_MapAtChecked ==
    [][\A k \in Key :
          (last'.op = "at" /\ MapAt("a", k)) =>
              LET size == m_size["a"]
                  ret == map_at(Start, "a", k)
                  present == \E i \in 0..(size - 1) : m_data["a"][i].key = k
              IN  /\ m_data' = m_data /\ m_size' = m_size /\ bal' = bal
                  /\ present => (/\ halted' = "no"
                                 /\ ret.idx < size
                                 /\ m_data["a"][ret.idx].occ
                                 /\ m_data["a"][ret.idx].key = k)
                  /\ ~present => halted' # "no"]_vars

SeqLess(s, t) ==
    \E p \in 0..Len(s) :
      /\ p <= Len(t)
      /\ SubSeq(s, 1, p) = SubSeq(t, 1, p)
      /\ IF p = Len(s) THEN p < Len(t)
         ELSE /\ p < Len(t)
              /\ \/ s[p + 1].key < t[p + 1].key
                 \/ s[p + 1].key = t[p + 1].key /\ s[p + 1].val < t[p + 1].val

\* C28: two maps compare equal exactly when they have the same size and equal
\* (key, value) entries at every index; operator< is the lexicographic order
\* of the (key, value) sequences; a != b iff not a == b, a <= b iff not
\* b < a, a > b iff b < a, a >= b iff not a < b; comparing changes nothing.
C28_MapComparison ==
    [][\A c, d \in Inst :
          LET sc == Sequence(m_data[c], m_size[c])
              sd == Sequence(m_data[d], m_size[d])
              same == /\ m_size[c] = m_size[d]
                      /\ \A i \in 0..(m_size[c] - 1) : m_data[c][i] = m_data[d][i]
          IN  /\ (last'.op = "equal" /\ MapEqual(c, d)) =>
                     /\ last'.flag = same
                     /\ map_not_equal(Start, c, d) = ~last'.flag
                     /\ UNCHANGED <<m_data, m_size, bal, halted>>
              /\ (last'.op = "less" /\ MapLess(c, d)) =>
                     /\ last'.flag = SeqLess(sc, sd)
                     /\ map_greater(Start, d, c) = last'.flag
                     /\ map_greater_equal(Start, c, d) = ~last'.flag
                     /\ map_less_equal(Start, d, c) = ~last'.flag
                     /\ last'.flag => ~same /\ ~SeqLess(sd, sc)
                     /\ UNCHANGED <<m_data, m_size, bal, halted>>]_vars

C28_Witness ==
    /\ kind = "map" /\ last.op = "less" /\ last.flag
    /\ m_size["a"] = Capacity /\ m_size["b"] = Capacity
    /\ \A i \in Slots : m_data["a"][i].key = m_data["b"][i].key
    /\ m_data["a"][0] = m_data["b"][0]
    /\ m_data["a"][1].val # m_data["b"][1].val

\* C29: on a vector or map of size s that is not changed meanwhile, a forward
\* cursor started at begin() has visited the indices 0, 1, ..., n-1 after n
\* increments and equals end() exactly when n = s; a reverse cursor started
\* at rbegin() has visited s-1, ..., s-n and equals rend() exactly when n = s;
\* every walk, a restarted one included, yields that sequence; every cell
\* visited holds an element; walking changes no container state.
C29_Iteration ==
    [][LET c == cur'.c
           s == m_size'[c]
           n == cur'.n
       IN  /\ cur'.dir = "fwd" =>
                 /\ n <= s
                 /\ cur'.seen = [i \in 1..n |-> i - 1]
                 /\ (cur'.idx = s) <=> (n = s)
           /\ cur'.dir = "rev" =>
                 /\ n <= s
                 /\ cur'.seen = [i \in 1..n |-> s - i]
                 /\ (cur'.idx = 0) <=> (n = s)
           /\ cur'.dir # "none" =>
                 /\ \A i \in 1..n : m_data'[c][cur'.seen[i]].occ
                 /\ UNCHANGED <<m_data, m_size, bal>>
                 /\ halted' = "no"]_vars

C29_Witness ==
    /\ kind = "map" /\ cur.dir = "rev" /\ halted = "no"
    /\ m_size["a"] = Capacity
    /\ cur.n = Capacity /\ cur.idx = 0
    /\ cur.seen = [i \in 1..Capacity |-> Capacity - i]

\* The number of times the body of for (i = lo; i < hi; ++i), or of
\* for (i = hi; i > lo; --i), runs.
LoopTrips(lo, hi) == IF lo < hi THEN hi - lo ELSE 0

\* map::erase(const_iterator): for (i = index; i < m_size - 1; ++i), in size_type.
map_erase_pos_trips(S, c, index) ==
    LoopTrips(index, (S.size[c] - 1) % (SizeMax + 1))

\* vector::erase: if (index < m_size) { ... for (i = index; i < m_size - 1; ++i) ... }
vector_erase_trips(S, c, index) ==
    IF index < S.size[c]
    THEN LoopTrips(index, (S.size[c] - 1) % (SizeMax + 1))
    ELSE 0

\* map::insert: the scan of find, then on a miss below capacity the scan for
\* the insertion point and the shift loop for (i = m_size; i > pos; --i).
map_insert_trips(S, c, key) ==
    LET size == S.size[c]
        it == map_find(S, c, key)
        scan == IF it # size THEN it + 1 ELSE size
        pos == InsertPos(S.data[c], size, key, 0)
    IN  IF it # size \/ size >= Capacity
        THEN scan
        ELSE scan + (IF pos < size THEN pos + 1 ELSE size) + LoopTrips(pos, size)

\* The work allowed to one operation: a constant number of passes over the
\* Capacity cells.
WorkBound == 3 * Capacity

\* C30: every vector and map operation terminates after a number of loop
\* iterations at most proportional to Capacity, from every reachable state
\* and for every argument: here for map::erase(pos), vector::erase and
\* map::insert, whose loops the claim names.
C30_BoundedWork ==
    [][/\ \A i \in Positions :
            (last'.op = "erase_pos" /\ MapErasePos("a", i)) =>
                map_erase_pos_trips(Start, "a", i) <= WorkBound
       /\ \A i \in Positions :
            (last'.op = "erase" /\ VecErase("a", i)) =>
                vector_erase_trips(Start, "a", i) <= WorkBound
       /\ \A k \in Key, v \in Val :
            (last'.op = "insert" /\ MapInsert("a", k, v)) =>
                map_insert_trips(Start, "a", k) <= WorkBound]_vars

\* The keys of the entries [0, size) of a map, in cell order.
KeysOf(cells, size) == [i \in 1..size |-> cells[i - 1].key]

\* C31: for every map (a sorted sequence of unique keys) and every probe
\* key, the linear scans map::lower_bound and map::upper_bound return the
\* same index as the halving searches estl::lower_bound and
\* estl::upper_bound with the same comparator over the key sequence.
C31_LinearEqualsHalving ==
    [][\A k \in Key :
          (last'.op = "equal_range" /\ MapEqualRange("a", k)) =>
              LET keys == KeysOf(m_data["a"], m_size["a"])
              IN  /\ map_lower_bound(Start, "a", k) = estl_lower_bound(keys, k)
                  /\ map_upper_bound(Start, "a", k) = estl_upper_bound(keys, k)]_vars

C31_Witness ==
    /\ kind = "map" /\ last.op = "equal_range" /\ ~last.flag /\ halted = "no"
    /\ m_size["a"] = Capacity
    /\ \E k \in Key :
          /\ estl_lower_bound(KeysOf(m_data["a"], m_size["a"]), k) = 2
          /\ estl_upper_bound(KeysOf(m_data["a"], m_size["a"]), k) = 2

\* C32: a = a on a vector or a map, in any state the operations reach, is the
\* identity: the handler ends in the record it started from (no cell is
\* constructed, destroyed, read or written), so the size and every cell are
\* unchanged and the call returns.
C32_SelfAssignment ==
    [][(/\ last'.op = "copy_assign"
        /\ VecCopyAssign("a", "a") \/ MapCopyAssign("a", "a")) =>
           /\ kind = "vector" => vector_copy_assign(Start, "a", "a") = Start
           /\ kind = "map" =>
                \A g \in Garbage : map_copy_assign(Start, "a", "a", g) = Start
           /\ m_data' = m_data /\ m_size' = m_size /\ bal' = bal
           /\ last'.viol = {} /\ ~last'.oob /\ ~last'.asserted
           /\ halted' = "no"]_vars

C32_Witness ==
    /\ last.op = "copy_assign" /\ halted = "no"
    /\ m_size["a"] = Capacity
    /\ Occupied(m_data["a"]) = Slots
    /\ m_data["a"][0] # m_data["a"][Capacity - 1]

\* C33: map::erase(pos) with the index of pos >= size (end(), or any position
\* of an empty map) destroys nothing, shifts nothing and leaves the size
\* unchanged (in particular the size never wraps below zero), and returns.
C33_MapEraseGuarded ==
    [][\A i \in Positions :
          (/\ last'.op = "erase_pos" /\ i >= m_size["a"]
           /\ MapErasePos("a", i)) =>
              /\ m_data' = m_data /\ m_size' = m_size /\ bal' = bal
              /\ last'.viol = {} /\ ~last'.oob
              /\ halted' = "no"]_vars

\* C34: insert(pos, x) with x referring to cell j of the same vector
\* (0 <= j < size, size < Capacity, pos within [0, size]) inserts a copy of
\* the value cell j held before the call, and never reads x after its cell
\* was destroyed by the shift.
C34_InsertAliased ==
    [][\A i \in Positions, j \in Slots :
          (/\ last'.op = "insert_alias"
           /\ m_size["a"] < Capacity /\ i <= m_size["a"] /\ j < m_size["a"]
           /\ VecInsertAlias("a", i, j)) =>
              /\ "read_empty" \notin last'.viol
              /\ halted' = "no"
              /\ m_size'["a"] = m_size["a"] + 1
              /\ m_data'["a"][i] = m_data["a"][j]]_vars

\* C35: insert(pos, x) with the index of pos > size (and size < Capacity)
\* constructs no element beyond index size, leaves no gap of empty cells
\* inside [0, size), and writes no slot with index >= Capacity.
C35_InsertPositionChecked ==
    [][\A i \in Positions, v \in Val :
          (/\ last'.op = "insert"
           /\ m_size["a"] < Capacity /\ i > m_size["a"]
           /\ VecInsert("a", i, v)) =>
              /\ Occupied(m_data'["a"]) \subseteq 0..m_size["a"]
              /\ Occupied(m_data'["a"]) = 0..(m_size'["a"] - 1)
              /\ ~last'.oob]_vars

\* The permutations of 1..n.
Perms(n) == {p \in [1..n -> 1..n] : \A i, j \in 1..n : i # j => p[i] # p[j]}

\* C36: estl::sort(first, last, comp) over a valid range returns; afterwards
\* the range is in non-descending order under comp (no element is less than
\* one before it) and is a permutation of what it held, with elements that
\* are equivalent under comp in the relative order they had before the call;
\* the cells outside the range and the size are unchanged, and no cell is
\* constructed or destroyed.
C36_SortStable ==
    [][\A first, lst \in Positions :
          (/\ last'.op = "sort" /\ first <= lst /\ lst <= m_size["a"]
           /\ VecSort("a", first, lst)) =>
              LET n == lst - first
                  old == [k \in 1..n |-> m_data["a"][first + k - 1]]
                  new == [k \in 1..n |-> m_data'["a"][first + k - 1]]
              IN  /\ halted' = "no" /\ last'.viol = {} /\ ~last'.oob
                  /\ \A i, j \in 1..n : i < j => ~elem_comp(new[j], new[i])
                  /\ \E p \in Perms(n) :
                        /\ \A i \in 1..n : new[i] = old[p[i]]
                        /\ \A i, j \in 1..n :
                              (/\ i < j
                               /\ ~elem_comp(new[i], new[j])
                               /\ ~elem_comp(new[j], new[i])) => p[i] < p[j]
                  /\ \A i \in Slots :
                        (i < first \/ i >= lst) => m_data'["a"][i] = m_data["a"][i]
                  /\ m_size' = m_size /\ bal' = bal]_vars

C36_Witness ==
    /\ kind = "vector" /\ last.op = "sort" /\ halted = "no"
    /\ m_size["a"] = Capacity
    /\ \A i \in 1..(Capacity - 1) :
          ~elem_comp(m_data["a"][i], m_data["a"][i - 1])
    /\ m_data["a"][0].val = Capacity - 1
    /\ m_data["a"][1].key = m_data["a"][2].key
    /\ m_data["a"][1].val < m_data["a"][2].val
====
